---- MODULE Spec2Model ----
(***************************************************************************)
(* Model of src/server.js: a Fastify catch-all route that records Twilio   *)
(* SMS webhooks.  One process; the module body runs once (schema, prepared *)
(* statements, pragma, listen) and then the route handler runs once per    *)
(* request.  The handler is an async function with a single await (the     *)
(* argon2 hash), so it is two synchronous sections; insertSMS is a         *)
(* better-sqlite3 transaction (BEGIN, the two inserts, COMMIT, or ROLLBACK *)
(* and rethrow).                                                           *)
(*                                                                         *)
(* JavaScript strings are sequences of one-character strings, so that      *)
(* indexOf, template concatenation and a one-character change are          *)
(* computed and not assumed.                                               *)
(***************************************************************************)
EXTENDS Integers, Sequences, FiniteSets, TLC

(***************************************************************************)
(* Bounds of the model.                                                    *)
(***************************************************************************)
MaxRequests == 2      \* requests the server receives in one run
MaxFaults == 1        \* environment faults (hash rejection, storage error) in one run

(***************************************************************************)
(* JavaScript values.                                                      *)
(***************************************************************************)
Undefined == <<"<undefined>">>            \* undefined, where a string may stand
Null == [k \in {"<null>"} |-> <<>>]       \* null, where an object may stand

Str_undefined == <<"u", "n", "d", "e", "f", "i", "n", "e", "d">>

\* `${v}` : a string is itself, undefined is the text "undefined"
TemplateStr(v) == IF v = Undefined THEN Str_undefined ELSE v

\* +b for a boolean b
BoolToNumber(b) == IF b THEN 1 ELSE 0

\* o[k] for an object o that is neither null nor undefined
Prop(o, k) == IF k \in DOMAIN o THEN o[k] ELSE Undefined

\* k.indexOf(needle): the first 0-based position of needle in k, or -1
indexOf(k, needle) ==
    LET hits == {i \in 0..(Len(k) - Len(needle)) :
                    SubSeq(k, i + 1, i + Len(needle)) = needle}
    IN IF hits = {} THEN -1 ELSE CHOOSE i \in hits : \A j \in hits : i <= j

\* ~n on a 32-bit integer
BitNot(n) == -n - 1

\* a number in a boolean position
Truthy(n) == n # 0

(***************************************************************************)
(* Configuration (process.env) and the literals of the handler.            *)
(***************************************************************************)
TWILIO_AUTH_TOKEN == <<"k", "e", "y">>
WEBHOOK_ENDPOINT == <<"h", "t", "t", "p", ":", "/", "/", "w">>

Str_twilio == <<"t", "w", "i", "l", "i", "o">>
Hdr_signature ==
    <<"x", "-", "t", "w", "i", "l", "i", "o", "-",
      "s", "i", "g", "n", "a", "t", "u", "r", "e">>
Hdr_idempotency ==
    <<"i", "-", "t", "w", "i", "l", "i", "o", "-",
      "i", "d", "e", "m", "p", "o", "t", "e", "n", "c", "y", "-",
      "t", "o", "k", "e", "n">>
Hdr_host == <<"h", "o", "s", "t">>
HashSeparator == <<"#", "#", "#">>

argon2Type == 2
hashLength == 384

(***************************************************************************)
(* Responses, as the HTTP caller receives them: status code, content type  *)
(* and the serialized body (a sequence of text pieces).                    *)
(***************************************************************************)
NoResponse == [code |-> 0, type |-> "", body |-> <<>>]
AckResponse ==
    [code |-> 200, type |-> "text/html", body |-> <<"<Response></Response>">>]
InvalidResponse ==
    [code |-> 400, type |-> "application/json",
     body |-> <<"{\"error\":\"Invalid Twilio request found.\"}">>]
NotAuthenticatedResponse ==
    [code |-> 200, type |-> "application/json",
     body |-> <<"{\"error\":\"Not Authenticated.\"}">>]
\* a handler that throws (or whose promise rejects): Fastify's default error
\* handler answers 500 with the error's message in the body
ErrorResponse(message) ==
    [code |-> 500, type |-> "application/json",
     body |-> <<"{\"statusCode\":500,\"error\":\"Internal Server Error\",\"message\":\"",
                message, "\"}">>]

(***************************************************************************)
(* Numbers and their text form.  new Date() is a count of milliseconds;    *)
(* dividing by 1000 gives seconds with a fraction, kept exactly as whole   *)
(* seconds and thousandths.  A number stored in a TEXT column is converted *)
(* to its decimal text.                                                    *)
(***************************************************************************)
DivideBy1000(ms) == [whole |-> ms \div 1000, thousandths |-> ms % 1000]

DigitChar(d) == <<"0", "1", "2", "3", "4", "5", "6", "7", "8", "9">>[d + 1]

RECURSIVE Digits(_)
Digits(n) == IF n < 10 THEN <<DigitChar(n)>>
             ELSE Append(Digits(n \div 10), DigitChar(n % 10))

\* the fraction digits of k thousandths, without trailing zeros
FractionDigits(k) ==
    IF k = 0 THEN <<"0">>
    ELSE IF k % 100 = 0 THEN <<DigitChar(k \div 100)>>
    ELSE IF k % 10 = 0 THEN <<DigitChar(k \div 100), DigitChar((k \div 10) % 10)>>
    ELSE <<DigitChar(k \div 100), DigitChar((k \div 10) % 10), DigitChar(k % 10)>>

NumberToText(x) == Digits(x.whole) \o <<".">> \o FractionDigits(x.thousandths)

(***************************************************************************)
(* Twilio.validateRequest: the expected signature is an HMAC, keyed by the *)
(* auth token, of the URL followed by every parameter's key and value in   *)
(* sorted key order; the verdict is whether the claimed signature equals   *)
(* it.  The HMAC is abstracted to a two-valued digest of its input (the    *)
(* parity of its length), so that both verdicts occur for every body.      *)
(***************************************************************************)
SortedParamKeys ==
    <<"AccountSid", "ApiVersion", "Body", "From", "SmsMessageSid", "To">>

RECURSIVE SignedParams(_, _)
SignedParams(params, i) ==
    IF i > Len(SortedParamKeys) THEN <<>>
    ELSE LET k == SortedParamKeys[i]
         IN (IF k \in DOMAIN params THEN <<k>> \o params[k] ELSE <<>>)
            \o SignedParams(params, i + 1)

HmacBase64(key, data) ==
    IF (Len(key) + Len(data)) % 2 = 0 THEN <<"a", "a">> ELSE <<"a", "b">>

getExpectedTwilioSignature(authToken, url, params) ==
    HmacBase64(authToken, url \o SignedParams(params, 1))

\* a faulty variant: a verifier that accepts any claimed signature
validateRequest_AcceptAll(authToken, twilioHeader, url, params) == TRUE

\* params is an object here; a missing header (undefined) is compared as ''
validateRequest(authToken, twilioHeader, url, params) ==
    LET claimed == IF twilioHeader = Undefined THEN <<>> ELSE twilioHeader
    IN claimed = getExpectedTwilioSignature(authToken, url, params)

(***************************************************************************)
(* argon2.hash(plain, {type, hashLength}): no salt is passed, so the       *)
(* library draws a fresh random salt for each call and returns the encoded *)
(* hash, which contains the parameters, the salt and the digest.  The      *)
(* digest is kept symbolically as (salt, plain).                           *)
(***************************************************************************)
Salts == {"salt1", "salt2"}

NoHash == [type |-> 0, hashLength |-> 0, salt |-> "", plain |-> <<>>]

argon2_hash(plain, salt) ==
    [type |-> argon2Type, hashLength |-> hashLength, salt |-> salt, plain |-> plain]

\* a faulty variant: the signature is left out of the hashed text
hashInput_NoSignature(t) ==
    HashSeparator \o TemplateStr(t.TwilioIdempotencyToken)
        \o HashSeparator \o TemplateStr(Prop(t.requestBody, "SmsMessageSid"))

\* the template literal of line 135
hashInput(t) ==
    TemplateStr(t.TwilioSignature)
        \o HashSeparator \o TemplateStr(t.TwilioIdempotencyToken)
        \o HashSeparator \o TemplateStr(Prop(t.requestBody, "SmsMessageSid"))

(***************************************************************************)
(* Requests the server may receive.  Header names arrive in lower case.    *)
(***************************************************************************)
Signatures == {<<"a", "a">>, <<"a", "b">>}
Tokens == {<<"t">>}

Headers(sig, tok) ==
    [h \in {Hdr_host}
            \cup (IF sig = Undefined THEN {} ELSE {Hdr_signature})
            \cup (IF tok = Undefined THEN {} ELSE {Hdr_idempotency})
        |-> IF h = Hdr_signature THEN sig
            ELSE IF h = Hdr_idempotency THEN tok
            ELSE <<"w">>]

\* a request without any provider header, and requests that carry the
\* idempotency token with a signature or without one
HeaderSets ==
    {Headers(Undefined, Undefined)}
        \cup {Headers(sig, tok) : sig \in Signatures \cup {Undefined}, tok \in Tokens}

FullBody ==
    [SmsMessageSid |-> <<"S", "M">>, AccountSid |-> <<"A", "C">>,
     ApiVersion |-> <<"1">>, From |-> <<"+", "1">>, To |-> <<"+", "2">>,
     Body |-> <<"h", "i">>]

Without(body, keys) == [k \in DOMAIN body \ keys |-> body[k]]

\* no body at all, a complete form, and a form with a field missing
Bodies == {Null} \cup {Without(FullBody, keys) : keys \in {{}, {"From"}}}

\* request.headers[name]
Header(headers, name) == IF name \in DOMAIN headers THEN headers[name] ELSE Undefined

\* a faulty variant: a gate that lets every request through
isTwilioRequest_Always(headers) == TRUE

\* Object.keys(request.headers).some(k => ~k.indexOf('twilio'))
isTwilioRequest(headers) ==
    \E k \in DOMAIN headers : Truthy(BitNot(indexOf(k, Str_twilio)))

(***************************************************************************)
(* The per-request object t and the statements' parameters.                *)
(***************************************************************************)
NoContext ==
    [receivedOn |-> DivideBy1000(0), TwilioSignature |-> Undefined,
     TwilioIdempotencyToken |-> Undefined, requestBody |-> Null,
     webhookEndpoint |-> Undefined, isAuthenticTwilioResponse |-> FALSE,
     requestUID |-> NoHash]

\* JSON.stringify(t): a property whose value is undefined is left out
\* a faulty variant: the snapshot is taken before the identity hash is assigned
JSONstringify_BeforeHash(value) ==
    [k \in DOMAIN value |-> IF k = "requestUID" THEN NoHash ELSE value[k]]

JSONstringify(t) ==
    LET dropped == {k \in {"TwilioSignature", "TwilioIdempotencyToken", "webhookEndpoint"} :
                        t[k] = Undefined}
    IN [k \in DOMAIN t \ dropped |-> t[k]]

\* the parameter object of twilioRequestInsertStatement.run
twilioRequestParams(t) ==
    [received_on |-> t.receivedOn,
     signature |-> t.TwilioSignature,
     idempotency_token |-> t.TwilioIdempotencyToken,
     sms_message_sid |-> Prop(t.requestBody, "SmsMessageSid"),
     account_sid |-> Prop(t.requestBody, "AccountSid"),
     api_version |-> Prop(t.requestBody, "ApiVersion"),
     webhook_endpoint |-> t.webhookEndpoint,
     is_authentic_request |-> BoolToNumber(t.isAuthenticTwilioResponse),
     raw_request |-> JSONstringify(t)]

\* the parameter object of smsInsertStatement.run
smsParams(t) ==
    [requestUID |-> t.requestUID,
     sender |-> Prop(t.requestBody, "From"),
     receiver |-> Prop(t.requestBody, "To"),
     body |-> Prop(t.requestBody, "Body"),
     received_on |-> t.receivedOn]

\* better-sqlite3 binds numbers and strings; a value of undefined is an error
twilioRequestBindable(p) ==
    \A k \in {"signature", "idempotency_token", "sms_message_sid", "account_sid",
              "api_version", "webhook_endpoint"} : p[k] # Undefined

smsBindable(p) ==
    \A k \in {"sender", "receiver", "body"} : p[k] # Undefined

\* the row INSERT INTO 'twilio_messages' stores: columns in the order of the
\* CREATE TABLE, the number bound to the TEXT column stored as text
twilio_messages_row(p) ==
    [recevied_on |-> NumberToText(p.received_on),
     twilio_signature |-> p.signature,
     twilio_idempotency_token |-> p.idempotency_token,
     twilio_sms_message_sid |-> p.sms_message_sid,
     twilio_account_sid |-> p.account_sid,
     twilio_api_version |-> p.api_version,
     webhook_endpoint |-> p.webhook_endpoint,
     is_authentic_request |-> p.is_authentic_request,
     raw_request |-> p.raw_request]

\* a faulty variant: sender and receiver are bound the wrong way round
sms_row_SwappedAddresses(p) ==
    [hash_id |-> p.requestUID,
     sender |-> p.receiver,
     receiver |-> p.sender,
     body |-> p.body,
     received_on |-> NumberToText(p.received_on)]

\* the row INSERT INTO 'sms' stores
sms_row(p) ==
    [hash_id |-> p.requestUID,
     sender |-> p.sender,
     receiver |-> p.receiver,
     body |-> p.body,
     received_on |-> NumberToText(p.received_on)]

(***************************************************************************)
(* State.                                                                  *)
(***************************************************************************)
VARIABLES
    startup,        \* position of the module body (lines 20-104, 168)
    schema,         \* the tables that exist in the database file
    secure_delete,  \* the connection's secure_delete pragma
    disk,           \* committed rows of each table, as any connection sees them
    conn,           \* this connection: inTransaction, and its own view of the rows
    clock,          \* the system clock, in milliseconds
    request,        \* request[r]: the headers and the body of request r
    pc,             \* pc[r]: where the handler of request r is
    t,              \* t[r]: the handler's object t
    response,       \* response[r]: what the caller of r received
    failure,        \* failure[r]: the error that ended the handler of r, "" if none
    running,        \* the request whose synchronous section is running, 0 if none
    faults          \* environment faults so far

vars == <<startup, schema, secure_delete, disk, conn, clock, request, pc, t,
          response, failure, running, faults>>

Ids == 1..MaxRequests

NoRequest == [headers |-> Headers(Undefined, Undefined), body |-> Null]

\* a stored row with the request that inserted it (the table has no key:
\* rows are told apart by their position)
Stored(r, row) == [writer |-> r, row |-> row]

RowsOf(table, r) == {i \in 1..Len(table) : table[i].writer = r}

Init ==
    /\ startup = "create_twilio_messages"
    /\ schema = {}
    /\ secure_delete = FALSE
    /\ disk = [twilio_messages |-> <<>>, sms |-> <<>>]
    /\ conn = [inTransaction |-> FALSE, twilio_messages |-> <<>>, sms |-> <<>>]
    /\ clock = 1999
    /\ request = [r \in Ids |-> NoRequest]
    /\ pc = [r \in Ids |-> "new"]
    /\ t = [r \in Ids |-> NoContext]
    /\ response = [r \in Ids |-> NoResponse]
    /\ failure = [r \in Ids |-> ""]
    /\ running = 0
    /\ faults = 0

(***************************************************************************)
(* The module body: schema, prepared statements, pragma, listen.           *)
(***************************************************************************)
CreateTwilioMessages ==
    /\ startup = "create_twilio_messages"
    /\ schema' = schema \cup {"twilio_messages"}
    /\ startup' = "create_sms"
    /\ UNCHANGED <<secure_delete, disk, conn, clock, request, pc, t, response,
                   failure, running, faults>>

\* a faulty variant: the table is dropped and created again
CreateSms_Recreate ==
    /\ startup = "create_sms"
    /\ schema' = schema \cup {"sms"}
    /\ disk' = [disk EXCEPT !.sms = <<>>]
    /\ conn' = [conn EXCEPT !.sms = <<>>]
    /\ startup' = "pragma"
    /\ UNCHANGED <<secure_delete, clock, request, pc, t, response, failure,
                   running, faults>>

CreateSms ==
    /\ startup = "create_sms"
    /\ schema' = schema \cup {"sms"}
    /\ startup' = "pragma"
    /\ UNCHANGED <<secure_delete, disk, conn, clock, request, pc, t, response,
                   failure, running, faults>>

SecureDeletePragma ==
    /\ startup = "pragma"
    /\ secure_delete' = TRUE
    /\ startup' = "listen"
    /\ UNCHANGED <<schema, disk, conn, clock, request, pc, t, response,
                   failure, running, faults>>

Listen ==
    /\ startup = "listen"
    /\ startup' = "listening"
    /\ UNCHANGED <<schema, secure_delete, disk, conn, clock, request, pc, t,
                   response, failure, running, faults>>

(***************************************************************************)
(* The route handler, first synchronous section (lines 107-140): the gate, *)
(* the assembly of t, the verdict, and the start of the hash.              *)
(***************************************************************************)
Arrive(r, headers, body) ==
    /\ startup = "listening"
    /\ running = 0
    /\ pc[r] = "new"
    /\ \A q \in Ids : q < r => pc[q] # "new"
    /\ request' = [request EXCEPT ![r] = [headers |-> headers, body |-> body]]
    /\ clock' = clock + 1       \* the next arrival reads a later time
    /\ IF ~isTwilioRequest(headers)
       THEN \* line 164
            /\ response' = [response EXCEPT ![r] = NotAuthenticatedResponse]
            /\ pc' = [pc EXCEPT ![r] = "done"]
            /\ UNCHANGED <<t, failure>>
       ELSE LET t0 == [NoContext EXCEPT
                          !.receivedOn = DivideBy1000(clock),
                          !.TwilioSignature = Header(headers, Hdr_signature),
                          !.TwilioIdempotencyToken = Header(headers, Hdr_idempotency),
                          !.requestBody = body,
                          !.webhookEndpoint = WEBHOOK_ENDPOINT]
            IN IF body = Null
               THEN \* no body: reading its keys or t.requestBody.SmsMessageSid throws
                    /\ t' = [t EXCEPT ![r] = t0]
                    /\ failure' = [failure EXCEPT ![r] = "TypeError: requestBody is null"]
                    /\ response' = [response EXCEPT ![r] =
                                        ErrorResponse("TypeError: requestBody is null")]
                    /\ pc' = [pc EXCEPT ![r] = "done"]
               ELSE /\ t' = [t EXCEPT ![r] =
                                [t0 EXCEPT !.isAuthenticTwilioResponse =
                                    validateRequest(TWILIO_AUTH_TOKEN, t0.TwilioSignature,
                                                    t0.webhookEndpoint, t0.requestBody)]]
                    /\ pc' = [pc EXCEPT ![r] = "await_hash"]
                    /\ UNCHANGED <<response, failure>>
    /\ UNCHANGED <<startup, schema, secure_delete, disk, conn, running, faults>>

(***************************************************************************)
(* The await of line 134 settles: the hash resolves with a fresh salt, or  *)
(* it rejects and the handler's promise rejects with it.                   *)
(***************************************************************************)
\* a faulty variant: the handler goes to the branch without calling insertSMS
HashResolve_SkipInsert(r, salt) ==
    /\ running = 0
    /\ pc[r] = "await_hash"
    /\ t' = [t EXCEPT ![r].requestUID = argon2_hash(hashInput(t[r]), salt)]
    /\ pc' = [pc EXCEPT ![r] = "branch"]
    /\ running' = r
    /\ UNCHANGED <<startup, schema, secure_delete, disk, conn, clock, request,
                   response, failure, faults>>

\* a faulty variant: the handler goes on to the write without the value of
\* the hash in t.requestUID
HashResolve_NoAssign(r, salt) ==
    /\ running = 0
    /\ pc[r] = "await_hash"
    /\ pc' = [pc EXCEPT ![r] = "insert"]
    /\ running' = r
    /\ UNCHANGED <<startup, schema, secure_delete, disk, conn, clock, request, t,
                   response, failure, faults>>

\* a faulty variant: t is one object shared by all handlers, so after the await
\* it holds what the latest request put there
HashResolve_SharedT(r, salt) ==
    /\ running = 0
    /\ pc[r] = "await_hash"
    /\ LET last == CHOOSE q \in Ids :
                      /\ pc[q] # "new"
                      /\ \A p \in Ids : pc[p] # "new" => p <= q
       IN t' = [t EXCEPT ![r] =
                   [t[last] EXCEPT !.requestUID = argon2_hash(hashInput(t[last]), salt)]]
    /\ pc' = [pc EXCEPT ![r] = "insert"]
    /\ running' = r
    /\ UNCHANGED <<startup, schema, secure_delete, disk, conn, clock, request,
                   response, failure, faults>>

HashResolve(r, salt) ==
    /\ running = 0
    /\ pc[r] = "await_hash"
    /\ t' = [t EXCEPT ![r].requestUID = argon2_hash(hashInput(t[r]), salt)]
    /\ pc' = [pc EXCEPT ![r] = "insert"]
    /\ running' = r
    /\ UNCHANGED <<startup, schema, secure_delete, disk, conn, clock, request,
                   response, failure, faults>>

\* a faulty variant: the rejection is ignored and the handler goes on to the
\* write without an identity hash
HashReject_Continues(r) ==
    /\ running = 0
    /\ pc[r] = "await_hash"
    /\ faults < MaxFaults
    /\ faults' = faults + 1
    /\ failure' = [failure EXCEPT ![r] = "Error: argon2"]
    /\ pc' = [pc EXCEPT ![r] = "insert"]
    /\ running' = r
    /\ UNCHANGED <<startup, schema, secure_delete, disk, conn, clock, request, t,
                   response>>

HashReject(r) ==
    /\ running = 0
    /\ pc[r] = "await_hash"
    /\ faults < MaxFaults
    /\ faults' = faults + 1
    /\ failure' = [failure EXCEPT ![r] = "Error: argon2"]
    /\ response' = [response EXCEPT ![r] = ErrorResponse("Error: argon2")]
    /\ pc' = [pc EXCEPT ![r] = "done"]
    /\ UNCHANGED <<startup, schema, secure_delete, disk, conn, clock, request, t,
                   running>>

(***************************************************************************)
(* insertSMS(t), a db.transaction: BEGIN; the two inserts; COMMIT.  When   *)
(* a statement throws, the transaction is rolled back and the error is     *)
(* thrown again.                                                           *)
(***************************************************************************)
TxBegin(r) ==
    /\ running = r
    /\ pc[r] = "insert"
    /\ conn' = [conn EXCEPT !.inTransaction = TRUE]
    /\ pc' = [pc EXCEPT ![r] = "tx_audit"]
    /\ UNCHANGED <<startup, schema, secure_delete, disk, clock, request, t,
                   response, failure, running, faults>>

\* the statement throws: control goes to the transaction's catch
Throws(r, message) ==
    /\ failure' = [failure EXCEPT ![r] = message]
    /\ pc' = [pc EXCEPT ![r] = "tx_rollback"]
    /\ UNCHANGED conn

\* the storage engine fails the statement (disk full, I/O error)
StorageFault(r, message) ==
    /\ faults < MaxFaults
    /\ faults' = faults + 1
    /\ Throws(r, message)

TxAuditInsert(r) ==
    /\ running = r
    /\ pc[r] = "tx_audit"
    /\ LET p == twilioRequestParams(t[r])
       IN \/ /\ ~twilioRequestBindable(p)
             /\ Throws(r, "TypeError: bind twilio_messages")
             /\ UNCHANGED faults
          \/ /\ twilioRequestBindable(p)
             /\ StorageFault(r, "SqliteError: twilio_messages")
          \/ /\ twilioRequestBindable(p)
             /\ conn' = [conn EXCEPT !.twilio_messages =
                            Append(@, Stored(r, twilio_messages_row(p)))]
             /\ pc' = [pc EXCEPT ![r] = "tx_sms"]
             /\ UNCHANGED <<failure, faults>>
    /\ UNCHANGED <<startup, schema, secure_delete, disk, clock, request, t,
                   response, running>>

TxSmsInsert(r) ==
    /\ running = r
    /\ pc[r] = "tx_sms"
    /\ LET p == smsParams(t[r])
       IN \/ /\ ~smsBindable(p)
             /\ Throws(r, "TypeError: bind sms")
             /\ UNCHANGED faults
          \/ /\ smsBindable(p)
             /\ StorageFault(r, "SqliteError: sms")
          \/ /\ smsBindable(p)
             /\ conn' = [conn EXCEPT !.sms = Append(@, Stored(r, sms_row(p)))]
             /\ pc' = [pc EXCEPT ![r] = "tx_commit"]
             /\ UNCHANGED <<failure, faults>>
    /\ UNCHANGED <<startup, schema, secure_delete, disk, clock, request, t,
                   response, running>>

\* a faulty variant: the commit replaces the tables by the rows of this request
TxCommit_Overwrite(r) ==
    /\ running = r
    /\ pc[r] = "tx_commit"
    /\ \/ /\ StorageFault(r, "SqliteError: commit")
          /\ UNCHANGED disk
       \/ /\ disk' = [twilio_messages |->
                         SelectSeq(conn.twilio_messages, LAMBDA s : s.writer = r),
                      sms |-> SelectSeq(conn.sms, LAMBDA s : s.writer = r)]
          /\ conn' = [conn EXCEPT !.inTransaction = FALSE]
          /\ pc' = [pc EXCEPT ![r] = "branch"]
          /\ UNCHANGED <<failure, faults>>
    /\ UNCHANGED <<startup, schema, secure_delete, clock, request, t, response,
                   running>>

TxCommit(r) ==
    /\ running = r
    /\ pc[r] = "tx_commit"
    /\ \/ /\ StorageFault(r, "SqliteError: commit")
          /\ UNCHANGED disk
       \/ /\ disk' = [twilio_messages |-> conn.twilio_messages, sms |-> conn.sms]
          /\ conn' = [conn EXCEPT !.inTransaction = FALSE]
          /\ pc' = [pc EXCEPT ![r] = "branch"]
          /\ UNCHANGED <<failure, faults>>
    /\ UNCHANGED <<startup, schema, secure_delete, clock, request, t, response,
                   running>>

\* a faulty variant: the inserts are not in a transaction, so what was inserted stays
TxRollback_KeepInserted(r) ==
    /\ running = r
    /\ pc[r] = "tx_rollback"
    /\ disk' = [twilio_messages |-> conn.twilio_messages, sms |-> conn.sms]
    /\ conn' = [conn EXCEPT !.inTransaction = FALSE]
    /\ response' = [response EXCEPT ![r] = ErrorResponse(failure[r])]
    /\ pc' = [pc EXCEPT ![r] = "done"]
    /\ running' = 0
    /\ UNCHANGED <<startup, schema, secure_delete, clock, request, t, failure,
                   faults>>

\* a faulty variant: the error is caught and the handler goes on to the branch
TxRollback_Swallow(r) ==
    /\ running = r
    /\ pc[r] = "tx_rollback"
    /\ conn' = [inTransaction |-> FALSE,
                twilio_messages |-> disk.twilio_messages, sms |-> disk.sms]
    /\ pc' = [pc EXCEPT ![r] = "branch"]
    /\ UNCHANGED <<startup, schema, secure_delete, disk, clock, request, t,
                   response, failure, running, faults>>

\* a faulty variant: the error leaves insertSMS without a ROLLBACK
TxRollback_LeaveOpen(r) ==
    /\ running = r
    /\ pc[r] = "tx_rollback"
    /\ response' = [response EXCEPT ![r] = ErrorResponse(failure[r])]
    /\ pc' = [pc EXCEPT ![r] = "done"]
    /\ running' = 0
    /\ UNCHANGED <<startup, schema, secure_delete, disk, conn, clock, request, t,
                   failure, faults>>

\* ROLLBACK, then the error leaves insertSMS and the handler (no catch), and
\* the caller receives the error reply
TxRollback(r) ==
    /\ running = r
    /\ pc[r] = "tx_rollback"
    /\ conn' = [inTransaction |-> FALSE,
                twilio_messages |-> disk.twilio_messages, sms |-> disk.sms]
    /\ response' = [response EXCEPT ![r] = ErrorResponse(failure[r])]
    /\ pc' = [pc EXCEPT ![r] = "done"]
    /\ running' = 0
    /\ UNCHANGED <<startup, schema, secure_delete, disk, clock, request, t,
                   failure, faults>>

(***************************************************************************)
(* Lines 145-160: the log line and the branch on the verdict.              *)
(***************************************************************************)
\* a faulty variant: every recorded request is acknowledged
Reply_AlwaysAck(isAuthentic) == AckResponse

Reply(isAuthentic) == IF isAuthentic THEN AckResponse ELSE InvalidResponse

Branch(r) ==
    /\ running = r
    /\ pc[r] = "branch"
    /\ response' = [response EXCEPT ![r] = Reply(t[r].isAuthenticTwilioResponse)]
    /\ pc' = [pc EXCEPT ![r] = "done"]
    /\ running' = 0
    /\ UNCHANGED <<startup, schema, secure_delete, disk, conn, clock, request, t,
                   failure, faults>>

Next ==
    \/ CreateTwilioMessages
    \/ CreateSms
    \/ SecureDeletePragma
    \/ Listen
    \/ \E r \in Ids, headers \in HeaderSets, body \in Bodies :
          Arrive(r, headers, body)
    \/ \E r \in Ids, salt \in Salts : HashResolve(r, salt)
    \/ \E r \in Ids : HashReject(r)
    \/ \E r \in Ids : TxBegin(r)
    \/ \E r \in Ids : TxAuditInsert(r)
    \/ \E r \in Ids : TxSmsInsert(r)
    \/ \E r \in Ids : TxCommit(r)
    \/ \E r \in Ids : TxRollback(r)
    \/ \E r \in Ids : Branch(r)

Spec == Init /\ [][Next]_vars

TypeOK ==
    /\ startup \in {"create_twilio_messages", "create_sms", "pragma", "listen", "listening"}
    /\ running \in {0} \cup Ids
    /\ faults \in 0..MaxFaults
    /\ \A r \in Ids : pc[r] \in {"new", "await_hash", "insert", "tx_audit", "tx_sms",
                                 "tx_commit", "tx_rollback", "branch", "done"}

(***************************************************************************)
(* The same program started on a database file that is new or that an      *)
(* earlier run of it has left: both tables exist and hold the pair of one  *)
(* recorded request (writer 0).                                            *)
(***************************************************************************)
EarlierContext ==
    [NoContext EXCEPT
        !.receivedOn = DivideBy1000(1000),
        !.TwilioSignature = <<"a", "b">>,
        !.TwilioIdempotencyToken = <<"t">>,
        !.requestBody = FullBody,
        !.webhookEndpoint = WEBHOOK_ENDPOINT,
        !.isAuthenticTwilioResponse =
            validateRequest(TWILIO_AUTH_TOKEN, <<"a", "b">>, WEBHOOK_ENDPOINT, FullBody),
        !.requestUID = argon2_hash(hashInput([NoContext EXCEPT
                                        !.TwilioSignature = <<"a", "b">>,
                                        !.TwilioIdempotencyToken = <<"t">>,
                                        !.requestBody = FullBody]), "salt1")]

DatabaseFiles ==
    {[schema |-> {}, twilio_messages |-> <<>>, sms |-> <<>>],
     [schema |-> {"twilio_messages", "sms"},
      twilio_messages |->
          <<Stored(0, twilio_messages_row(twilioRequestParams(EarlierContext)))>>,
      sms |-> <<Stored(0, sms_row(smsParams(EarlierContext)))>>]}

InitRestart ==
    /\ startup = "create_twilio_messages"
    /\ \E db \in DatabaseFiles :
          /\ schema = db.schema
          /\ disk = [twilio_messages |-> db.twilio_messages, sms |-> db.sms]
          /\ conn = [inTransaction |-> FALSE,
                     twilio_messages |-> db.twilio_messages, sms |-> db.sms]
    /\ secure_delete = FALSE
    /\ clock = 1999
    /\ request = [r \in Ids |-> NoRequest]
    /\ pc = [r \in Ids |-> "new"]
    /\ t = [r \in Ids |-> NoContext]
    /\ response = [r \in Ids |-> NoResponse]
    /\ failure = [r \in Ids |-> ""]
    /\ running = 0
    /\ faults = 0

SpecRestart == InitRestart /\ [][Next]_vars

(***************************************************************************)
(* Vocabulary of the properties.                                           *)
(***************************************************************************)
Arrived(r) == pc[r] # "new"
Done(r) == pc[r] = "done"

\* no header name of the request contains 'twilio'
NoProviderHeader(r) ==
    \A k \in DOMAIN request[r].headers : indexOf(k, Str_twilio) = -1

\* the request entered the ingestion path (lines 115-160)
Ingested(r) == Arrived(r) /\ ~NoProviderHeader(r)

\* the hash of request r has resolved
Hashed(r) == t[r].requestUID # NoHash

\* committed rows that request r inserted
AuditRows(r) == RowsOf(disk.twilio_messages, r)
SmsRows(r) == RowsOf(disk.sms, r)

\* request r has exactly one committed row in each table
OnePair(r) == Cardinality(AuditRows(r)) = 1 /\ Cardinality(SmsRows(r)) = 1
\* request r has no row, committed or in this connection's view
NoRow(r) ==
    /\ AuditRows(r) = {} /\ SmsRows(r) = {}
    /\ RowsOf(conn.twilio_messages, r) = {} /\ RowsOf(conn.sms, r) = {}

TheAuditRow(r) == disk.twilio_messages[CHOOSE i \in AuditRows(r) : TRUE].row
TheSmsRow(r) == disk.sms[CHOOSE i \in SmsRows(r) : TRUE].row

\* the handler of r ended by an error thrown inside insertSMS
WriteFailures ==
    {"TypeError: bind twilio_messages", "SqliteError: twilio_messages",
     "TypeError: bind sms", "SqliteError: sms", "SqliteError: commit"}

\* the three inputs of the identity hash
HashTriple(r) ==
    <<t[r].TwilioSignature, t[r].TwilioIdempotencyToken,
      Prop(t[r].requestBody, "SmsMessageSid")>>

\* two strings of the same length that differ in exactly one character
OneCharApart(a, b) ==
    /\ Len(a) = Len(b)
    /\ Cardinality({i \in 1..Len(a) : a[i] # b[i]}) = 1

(***************************************************************************)
(* C1 (as stated): every request that enters the ingestion path ends with  *)
(* exactly one audit row and exactly one sms row, whatever its verdict and *)
(* its body fields are; none ends with zero rows.                          *)
(***************************************************************************)
C1_ExactlyOnePairAlways ==
    \A r \in Ids : (Ingested(r) /\ Done(r)) => OnePair(r)

(***************************************************************************)
(* C1 (amended): a request that enters the ingestion path never has more   *)
(* than one audit row or more than one sms row, and the committed rows of  *)
(* a request are a pair; once its handler has ended it has exactly one     *)
(* pair if it was answered 200 or 400, and no row at all if the handler    *)
(* threw and it was answered 500.                                          *)
(***************************************************************************)
C1_OnePairIffAnswered ==
    \A r \in Ids :
        /\ Cardinality(AuditRows(r)) <= 1
        /\ Cardinality(AuditRows(r)) = Cardinality(SmsRows(r))
        /\ (Ingested(r) /\ Done(r)) =>
              /\ response[r] \in {AckResponse, InvalidResponse} <=> OnePair(r)
              /\ response[r] \notin {AckResponse, InvalidResponse} <=>
                    (NoRow(r) /\ response[r] = ErrorResponse(failure[r])
                     /\ failure[r] # "")

\* both ends happen: a recorded request, and an ingested one that left no row
C1_Witness ==
    \E r, q \in Ids :
        /\ Ingested(r) /\ Done(r) /\ OnePair(r)
        /\ Ingested(q) /\ Done(q) /\ NoRow(q)

(***************************************************************************)
(* C2: the dual write is atomic.  The committed rows, which any reader may *)
(* see at any time, always hold as many audit rows as sms rows; outside a  *)
(* transaction this connection sees exactly the committed rows; and a      *)
(* request whose sms insert failed after its audit insert was executed has *)
(* no row afterwards.                                                      *)
(***************************************************************************)
C2_Atomic ==
    /\ Len(disk.twilio_messages) = Len(disk.sms)
    /\ ~conn.inTransaction =>
          /\ conn.twilio_messages = disk.twilio_messages
          /\ conn.sms = disk.sms
    /\ \A r \in Ids :
          (Done(r) /\ failure[r] \in {"TypeError: bind sms", "SqliteError: sms"})
              => NoRow(r)

\* a handler has ended whose sms insert failed, after another request's pair
\* was committed
C2_Witness ==
    \E r \in Ids :
        /\ Done(r)
        /\ failure[r] \in {"TypeError: bind sms", "SqliteError: sms"}
        /\ Len(disk.twilio_messages) > 0

(***************************************************************************)
(* C3: a request none of whose header names contains 'twilio' never causes *)
(* a storage write, whatever its body is, and is answered with the JSON    *)
(* body {"error": "Not Authenticated."} and the default status.            *)
(***************************************************************************)
C3_HeaderGate ==
    \A r \in Ids :
        (Arrived(r) /\ NoProviderHeader(r)) =>
            /\ NoRow(r)
            /\ Done(r)
            /\ response[r] = NotAuthenticatedResponse
            /\ response[r].code = 200

\* a request without provider header, with a complete body, has been answered
\* while another request's rows are in the tables
C3_Witness ==
    \E r \in Ids :
        /\ Arrived(r) /\ NoProviderHeader(r)
        /\ request[r].body = FullBody
        /\ Len(disk.sms) > 0

C6_NoAckWithoutWrite ==
    \A r \in Ids :
        /\ failure[r] # "" => response[r] # AckResponse
        /\ response[r] = AckResponse => OnePair(r)

\* the write of a request whose signature verified has failed
C6_Witness ==
    \E r \in Ids :
        /\ Done(r)
        /\ failure[r] \in WriteFailures
        /\ t[r].isAuthenticTwilioResponse

(***************************************************************************)
(* C7 (as stated): whatever happens in the handler, the caller receives    *)
(* one of three responses: the acknowledgment, the authentication-failure  *)
(* JSON, or the header-absence JSON.                                       *)
(***************************************************************************)
C7_ThreeShapesOnly ==
    \A r \in Ids :
        Done(r) =>
            response[r] \in {AckResponse, InvalidResponse, NotAuthenticatedResponse}

(***************************************************************************)
(* C8 (as stated): the identity hash is a deterministic function of the    *)
(* signature, the idempotency token and the message sid: two derivations   *)
(* with the same three inputs give the same hash.                          *)
(***************************************************************************)
C8_HashDeterministic ==
    \A r, q \in Ids :
        (Hashed(r) /\ Hashed(q) /\ HashTriple(r) = HashTriple(q)) =>
            t[r].requestUID = t[q].requestUID

(***************************************************************************)
(* C9 (as stated): two requests with identical signature, token and        *)
(* message fields are both stored, as two audit rows and two sms rows, and *)
(* the stored rows carry the same identity hash.                           *)
(***************************************************************************)
C9_ReplayStoredSameHash ==
    \A r, q \in Ids :
        (r # q /\ request[r] = request[q]
            /\ response[r] \in {AckResponse, InvalidResponse}
            /\ response[q] \in {AckResponse, InvalidResponse}) =>
            /\ OnePair(r) /\ OnePair(q)
            /\ AuditRows(r) # AuditRows(q)
            /\ SmsRows(r) # SmsRows(q)
            /\ TheSmsRow(r).hash_id = TheSmsRow(q).hash_id
            /\ TheAuditRow(r).raw_request["requestUID"]
                    = TheAuditRow(q).raw_request["requestUID"]

(***************************************************************************)
(* C10 (as stated): changing one character of the signature of a request   *)
(* that verifies, all else fixed, makes the verdict false and leaves the   *)
(* identity hash unchanged.                                                *)
(***************************************************************************)
Tampered(r, q) ==
    /\ Hashed(r) /\ Hashed(q)
    /\ t[r].isAuthenticTwilioResponse
    /\ t[r].TwilioSignature # Undefined /\ t[q].TwilioSignature # Undefined
    /\ OneCharApart(t[r].TwilioSignature, t[q].TwilioSignature)
    /\ t[r].TwilioIdempotencyToken = t[q].TwilioIdempotencyToken
    /\ t[r].requestBody = t[q].requestBody

C10_TamperKeepsHash ==
    \A r, q \in Ids :
        Tampered(r, q) =>
            /\ ~t[q].isAuthenticTwilioResponse
            /\ t[r].requestUID = t[q].requestUID

(***************************************************************************)
(* C10 (amended): changing one character of the signature of a request     *)
(* that verifies, all else fixed, makes the verdict false and changes the  *)
(* hashed text and the identity hash, because the signature is part of the *)
(* hashed text.                                                            *)
(***************************************************************************)
C10_TamperChangesHash ==
    \A r, q \in Ids :
        Tampered(r, q) =>
            /\ ~t[q].isAuthenticTwilioResponse
            /\ t[r].requestUID.plain # t[q].requestUID.plain
            /\ t[r].requestUID # t[q].requestUID

C10_Witness == \E r, q \in Ids : Tampered(r, q) /\ Done(r) /\ Done(q)

(***************************************************************************)
(* C11 (as stated): a request that passes the header gate without an       *)
(* 'x-twilio-signature' header gets the verdict false without an error,    *)
(* and its handler goes on to the write and to the 400 response: unless    *)
(* the hash or the storage engine fails, it ends recorded and answered     *)
(* 400.                                                                    *)
(***************************************************************************)
EnvironmentFailures ==
    {"Error: argon2", "SqliteError: twilio_messages", "SqliteError: sms",
     "SqliteError: commit"}

C11_MissingSignatureRecorded400 ==
    \A r \in Ids :
        (Ingested(r) /\ Done(r)
            /\ request[r].body # Null
            /\ Hdr_signature \notin DOMAIN request[r].headers
            /\ failure[r] \notin EnvironmentFailures) =>
            /\ ~t[r].isAuthenticTwilioResponse
            /\ OnePair(r)
            /\ response[r] = InvalidResponse

(***************************************************************************)
(* C12: a request whose identity-hash computation fails writes nothing:    *)
(* it has no audit row and no sms row, committed or pending, and its       *)
(* handler has ended.                                                      *)
(***************************************************************************)
C12_HashFailureWritesNothing ==
    \A r \in Ids :
        failure[r] = "Error: argon2" =>
            /\ NoRow(r)
            /\ Done(r)
            /\ ~Hashed(r)

\* the hash of a request has failed while the tables hold another request's pair
C12_Witness ==
    \E r \in Ids :
        /\ failure[r] = "Error: argon2"
        /\ Len(disk.twilio_messages) > 0
        /\ Len(disk.sms) > 0

(***************************************************************************)
(* C13: the write of a request never starts before its identity hash has   *)
(* resolved, whatever other requests do while it is suspended: a handler   *)
(* that is at or past the call of insertSMS has its hash, a request with a *)
(* row (pending or committed) has its hash, and every sms row carries the  *)
(* identity hash of the request that wrote it, never a missing one.        *)
(***************************************************************************)
PastAwait(r) ==
    pc[r] \in {"insert", "tx_audit", "tx_sms", "tx_commit", "tx_rollback", "branch"}

C13_WriteAfterHash ==
    /\ \A r \in Ids :
          (PastAwait(r) \/ RowsOf(conn.twilio_messages, r) # {}
                        \/ RowsOf(conn.sms, r) # {}
                        \/ AuditRows(r) # {} \/ SmsRows(r) # {}) => Hashed(r)
    /\ \A i \in 1..Len(conn.sms) :
          /\ conn.sms[i].row.hash_id # NoHash
          /\ conn.sms[i].row.hash_id = t[conn.sms[i].writer].requestUID
    /\ \A i \in 1..Len(disk.sms) :
          /\ disk.sms[i].row.hash_id # NoHash
          /\ disk.sms[i].row.hash_id = t[disk.sms[i].writer].requestUID

\* a request that arrived later has committed its pair while an earlier one
\* was suspended at the await, and the earlier one has committed its pair after
C13_Witness ==
    \E r, q \in Ids :
        /\ r < q
        /\ OnePair(r) /\ OnePair(q)
        /\ disk.sms[1].writer = q

(***************************************************************************)
(* C14: the write transaction is released on every exit path.  A           *)
(* transaction is open only while the handler that opened it is inside     *)
(* insertSMS; when insertSMS has returned or thrown, when a handler is     *)
(* suspended, and when another request begins its write, none is open.     *)
(***************************************************************************)
C14_TransactionReleased ==
    /\ conn.inTransaction =>
          /\ running # 0
          /\ pc[running] \in {"tx_audit", "tx_sms", "tx_commit", "tx_rollback"}
    /\ \A r \in Ids :
          pc[r] \in {"new", "await_hash", "insert", "branch", "done"} =>
              (running \in {0, r} => ~conn.inTransaction)

\* after insertSMS has thrown for one request, another request begins its write
C14_Witness ==
    \E r, q \in Ids :
        /\ Done(r) /\ failure[r] \in WriteFailures
        /\ pc[q] = "insert"
        /\ ~conn.inTransaction

(***************************************************************************)
(* C15: startup ordering.  When the server listens, both tables exist and  *)
(* secure_delete is on; no request is handled and no write attempted       *)
(* before; creating the tables leaves the rows of an existing database     *)
(* untouched; a table once there stays, and secure_delete once on stays    *)
(* on.                                                                     *)
(***************************************************************************)
AllTables == {"twilio_messages", "sms"}

C15_Ready ==
    /\ startup = "listening" => (schema = AllTables /\ secure_delete)
    /\ \A r \in Ids : Arrived(r) => startup = "listening"
    /\ conn.inTransaction => (schema = AllTables /\ secure_delete)

C15_StartupStep ==
    /\ startup # "listening" => (disk' = disk /\ conn' = conn)
    /\ schema \subseteq schema'
    /\ secure_delete => secure_delete'

C15_StartupOrdering == [] C15_Ready /\ [][C15_StartupStep]_vars

\* on a database an earlier run left, a request has been recorded and the
\* earlier rows are still there
C15_Witness ==
    /\ startup = "listening" /\ secure_delete
    /\ \E r \in Ids : OnePair(r)
    /\ RowsOf(disk.twilio_messages, 0) # {} /\ RowsOf(disk.sms, 0) # {}

(***************************************************************************)
(* C16: concurrent requests do not interfere.  Every pending or committed  *)
(* audit row and sms row holds only what the request that wrote it         *)
(* brought: its own signature, token, body fields, verdict, arrival time   *)
(* and identity hash; and whether a request ends recorded depends on its   *)
(* own inputs only, not on the order in which the hashes complete.         *)
(***************************************************************************)
\* the time the handler of the w-th request read (the clock starts at 1999
\* and every arrival reads it once)
ArrivalTime(w) == DivideBy1000(1999 + (w - 1))

OwnVerdict(w) ==
    validateRequest(TWILIO_AUTH_TOKEN, Header(request[w].headers, Hdr_signature),
                    WEBHOOK_ENDPOINT, request[w].body)

OwnAuditRow(w, row) ==
    /\ row.recevied_on = NumberToText(ArrivalTime(w))
    /\ row.twilio_signature = Header(request[w].headers, Hdr_signature)
    /\ row.twilio_idempotency_token = Header(request[w].headers, Hdr_idempotency)
    /\ row.twilio_sms_message_sid = Prop(request[w].body, "SmsMessageSid")
    /\ row.twilio_account_sid = Prop(request[w].body, "AccountSid")
    /\ row.twilio_api_version = Prop(request[w].body, "ApiVersion")
    /\ row.webhook_endpoint = WEBHOOK_ENDPOINT
    /\ row.is_authentic_request = BoolToNumber(OwnVerdict(w))
    /\ row.raw_request["requestBody"] = request[w].body
    /\ row.raw_request["receivedOn"] = ArrivalTime(w)
    /\ row.raw_request["requestUID"] = t[w].requestUID

OwnSmsRow(w, row) ==
    /\ row.hash_id = t[w].requestUID
    /\ row.hash_id.plain =
          TemplateStr(Header(request[w].headers, Hdr_signature))
              \o HashSeparator
              \o TemplateStr(Header(request[w].headers, Hdr_idempotency))
              \o HashSeparator
              \o TemplateStr(Prop(request[w].body, "SmsMessageSid"))
    /\ row.sender = Prop(request[w].body, "From")
    /\ row.receiver = Prop(request[w].body, "To")
    /\ row.body = Prop(request[w].body, "Body")
    /\ row.received_on = NumberToText(ArrivalTime(w))

C16_NoInterference ==
    /\ \A i \in 1..Len(conn.twilio_messages) :
          OwnAuditRow(conn.twilio_messages[i].writer, conn.twilio_messages[i].row)
    /\ \A i \in 1..Len(disk.twilio_messages) :
          OwnAuditRow(disk.twilio_messages[i].writer, disk.twilio_messages[i].row)
    /\ \A i \in 1..Len(conn.sms) : OwnSmsRow(conn.sms[i].writer, conn.sms[i].row)
    /\ \A i \in 1..Len(disk.sms) : OwnSmsRow(disk.sms[i].writer, disk.sms[i].row)
    /\ \A r \in Ids :
          /\ (Done(r) /\ Hashed(r) /\ failure[r] = "") => OnePair(r)
          /\ failure[r] = "TypeError: bind twilio_messages" =>
                \E k \in {Hdr_signature, Hdr_idempotency} :
                    k \notin DOMAIN request[r].headers
          /\ failure[r] = "TypeError: bind sms" =>
                \E k \in {"From", "To", "Body"} : k \notin DOMAIN request[r].body

\* two different requests were suspended at the await together; the hash of
\* the later one completed first, and both have committed their pairs
C16_Witness ==
    \E r, q \in Ids :
        /\ r < q
        /\ request[r] # request[q]
        /\ OnePair(r) /\ OnePair(q)
        /\ disk.twilio_messages[1].writer = q

(***************************************************************************)
(* C17: the two rows of a committed pair can be joined.  For every         *)
(* recorded request the sms row's received_on equals the audit row's       *)
(* recevied_on, the sms row's hash_id is the requestUID inside the audit   *)
(* row's raw_request snapshot (and is a real hash, not the initial         *)
(* undefined), the verdict in the snapshot is the one in the               *)
(* is_authentic_request column, and the i-th audit row and the i-th sms    *)
(* row were written by the same request.                                   *)
(***************************************************************************)
C17_PairJoinable ==
    /\ \A r \in Ids : OnePair(r) =>
          /\ TheSmsRow(r).received_on = TheAuditRow(r).recevied_on
          /\ TheAuditRow(r).raw_request["requestUID"] # NoHash
          /\ TheSmsRow(r).hash_id = TheAuditRow(r).raw_request["requestUID"]
          /\ BoolToNumber(TheAuditRow(r).raw_request["isAuthenticTwilioResponse"])
                = TheAuditRow(r).is_authentic_request
          /\ NumberToText(TheAuditRow(r).raw_request["receivedOn"])
                = TheSmsRow(r).received_on
    /\ Len(disk.twilio_messages) = Len(disk.sms)
    /\ \A i \in 1..Len(disk.sms) : disk.twilio_messages[i].writer = disk.sms[i].writer

\* two pairs are committed, one judged authentic and one not
C17_Witness ==
    \E r, q \in Ids :
        /\ OnePair(r) /\ OnePair(q)
        /\ TheAuditRow(r).is_authentic_request = 1
        /\ TheAuditRow(q).is_authentic_request = 0
        /\ TheSmsRow(r).hash_id # TheSmsRow(q).hash_id

(***************************************************************************)
(* C18: storage is append-only under the program's own steps.  In every    *)
(* step the committed rows of each table before the step are, unchanged    *)
(* and in the same order, the first rows of the table after the step: a    *)
(* committed row is never modified or removed.                             *)
(***************************************************************************)
IsPrefix(s, u) == Len(s) <= Len(u) /\ \A i \in 1..Len(s) : u[i] = s[i]

C18_Step ==
    /\ IsPrefix(disk.twilio_messages, disk'.twilio_messages)
    /\ IsPrefix(disk.sms, disk'.sms)

C18_AppendOnly == [][C18_Step]_vars

\* a second pair has been committed after a first one
C18_Witness ==
    /\ Len(disk.twilio_messages) = 2 /\ Len(disk.sms) = 2
    /\ disk.twilio_messages[1].writer # disk.twilio_messages[2].writer

(***************************************************************************)
(* C19: the stored verdict and the response agree.  A request on the       *)
(* ingestion path that has been answered got the 200 acknowledgment        *)
(* exactly when its committed audit row has is_authentic_request = 1, and  *)
(* the 400 error exactly when that row has is_authentic_request = 0; and   *)
(* between the commit and the branch the verdict the handler holds is the  *)
(* one that was stored.                                                    *)
(***************************************************************************)
StoredVerdict(r, v) == OnePair(r) /\ TheAuditRow(r).is_authentic_request = v

C19_VerdictMatchesResponse ==
    \A r \in Ids :
        /\ (Ingested(r) /\ Done(r)) =>
              /\ response[r] = AckResponse <=> StoredVerdict(r, 1)
              /\ response[r] = InvalidResponse <=> StoredVerdict(r, 0)
        /\ pc[r] = "branch" =>
              StoredVerdict(r, BoolToNumber(t[r].isAuthenticTwilioResponse))

\* one request has been acknowledged and another answered 400, both recorded
C19_Witness ==
    \E r, q \in Ids :
        /\ Done(r) /\ response[r] = AckResponse /\ StoredVerdict(r, 1)
        /\ Done(q) /\ response[q] = InvalidResponse /\ StoredVerdict(q, 0)

====
